---- MODULE Spec2Model ----
(***************************************************************************)
(* Model of port/script.py: the Apple Health step-count extraction         *)
(* (open_export_zip, parse_health_data, aggregate_daily_steps,             *)
(* extract_daily_steps_from_zip) and the donation workflow generator       *)
(* process(sessionId), which is resumed by the host with one payload per   *)
(* yielded command.                                                        *)
(***************************************************************************)
EXTENDS Integers, Sequences, FiniteSets, TLC

(* ------------------------------ bounds --------------------------------- *)

\* number of XML start-element events the parser reports for one entry
MaxLen == 3
\* number of file selections the host makes in one run of process
MaxAttempts == 2

(* ------------------------- values and inputs --------------------------- *)

\* a naive datetime.datetime value
DT(y, mo, d, h, mi, s) ==
    [year |-> y, month |-> mo, day |-> d, hour |-> h, minute |-> mi, second |-> s]

\* script.py:14
filter_start_date == DT(2017, 1, 1, 0, 0, 0)

\* the wall-clock date-times written in startDate attributes
Walls == { DT(2016, 12, 31, 23, 59, 59),
           DT(2017, 1, 1, 0, 0, 0),
           DT(2024, 1, 2, 8, 30, 0) }

\* a startDate attribute: the literal "YYYY-MM-DD HH:MM:SS +HHMM" split into
\* its wall-clock fields and its UTC offset in minutes; wellformed is FALSE
\* for a literal the format does not match
DateLiteral(w, off) == [wellformed |-> TRUE, wall |-> w, utcoffset |-> off]
BadDateLiteral == [wellformed |-> FALSE, wall |-> DT(0, 0, 0, 0, 0, 0), utcoffset |-> 0]

\* a value attribute: a decimal integer literal, or text int() rejects
IntLiteral(n) == [isInt |-> TRUE, n |-> n]
BadIntLiteral == [isInt |-> FALSE, n |-> 0]

StepType == "HKQuantityTypeIdentifierStepCount"
HeartType == "HKQuantityTypeIdentifierHeartRate"

Element(tag, attrs) == [tag |-> tag, attributes |-> attrs]
RecordAttrs(type, value, startDate) ==
    [type |-> <<type>>, value |-> value, startDate |-> startDate]

\* an attribute that is absent from the element is the empty tuple in the
\* type slot (attributes["type"] raises KeyError on it)
NoTypeAttrs(value, startDate) ==
    [type |-> <<>>, value |-> value, startDate |-> startDate]

\* step-count records: each wall-clock time written with offset +0000 and
\* value 100, the two times from 2017 on also with offset +0100 and value 250
StepElements ==
    { Element("Record", RecordAttrs(StepType, IntLiteral(100), DateLiteral(w, 0))) : w \in Walls }
    \cup
    { Element("Record", RecordAttrs(StepType, IntLiteral(250), DateLiteral(w, 60))) :
        w \in { DT(2017, 1, 1, 0, 0, 0), DT(2024, 1, 2, 8, 30, 0) } }

OtherElements ==
    { Element("Record", RecordAttrs(HeartType, IntLiteral(100), DateLiteral(DT(2024, 1, 2, 8, 30, 0), 0))),
      Element("Workout", RecordAttrs(StepType, IntLiteral(250), DateLiteral(DT(2024, 1, 2, 8, 30, 0), 0))),
      Element("Record", NoTypeAttrs(IntLiteral(100), DateLiteral(DT(2024, 1, 2, 8, 30, 0), 0))),
      Element("Record", RecordAttrs(StepType, BadIntLiteral, DateLiteral(DT(2024, 1, 2, 8, 30, 0), 0))),
      Element("Record", RecordAttrs(StepType, IntLiteral(100), BadDateLiteral)) }

Elements == StepElements \cup OtherElements

\* script.py:98
ExportName == "apple_health_export/export.xml"
MemberNames == { ExportName, "export.xml", "apple_health_export/export_cda.xml" }

\* what zipfile.ZipFile finds at a path: not a zip archive, or its namelist;
\* entryOk is FALSE when archive.open rejects the expected member
Archives == { [isZip |-> FALSE, namelist |-> {}, entryOk |-> FALSE] }
            \cup { [isZip |-> TRUE, namelist |-> ns, entryOk |-> TRUE] :
                     ns \in { {}, MemberNames \ { ExportName }, { ExportName }, MemberNames } }
            \cup { [isZip |-> TRUE, namelist |-> { ExportName }, entryOk |-> FALSE] }

\* file paths as character sequences
Paths == { <<"a">>, <<"d", "/", "b">> }

SessionIds == { 7, 42 }

JSONValues == { "[]", "[{}]" }

Payload(type, path, json) == [type |-> type, path |-> path, json |-> json]
Payloads ==
    { Payload("PayloadString", p, "") : p \in Paths }
    \cup { Payload("PayloadJSON", <<>>, j) : j \in JSONValues }
    \cup { Payload(t, <<>>, "") : t \in { "PayloadTrue", "PayloadFalse", "PayloadVoid" } }

(* --------------------------- pure functions ---------------------------- *)

Min(a, b) == IF a < b THEN a ELSE b

\* lexicographic order on integer sequences: Python's order on str (by code
\* point) and on datetime (by field)
LexLess(s, t) ==
    \E i \in 1..(Min(Len(s), Len(t)) + 1) :
        /\ \A j \in 1..(i - 1) : s[j] = t[j]
        /\ \/ i > Len(s) /\ i <= Len(t)
           \/ i <= Len(s) /\ i <= Len(t) /\ s[i] < t[i]

\* datetime.__lt__ on naive datetimes
DatetimeLess(a, b) ==
    LexLess(<<a.year, a.month, a.day, a.hour, a.minute, a.second>>,
            <<b.year, b.month, b.day, b.hour, b.minute, b.second>>)

\* character codes of the decimal digits and of "-"
Digit(n) == 48 + n
Hyphen == 45
Pad2(n) == << Digit((n \div 10) % 10), Digit(n % 10) >>
Pad4(n) == << Digit((n \div 1000) % 10), Digit((n \div 100) % 10),
              Digit((n \div 10) % 10), Digit(n % 10) >>

\* strftime("%Y-%m-%d") as a sequence of character codes
strftime(dt) ==
    Pad4(dt.year) \o <<Hyphen>> \o Pad2(dt.month) \o <<Hyphen>> \o Pad2(dt.day)

\* datetime.strptime(date_str, "%Y-%m-%d %H:%M:%S %z"): an aware datetime,
\* the wall-clock fields as written plus a fixed-offset tzinfo
strptime(date_str) == [naive |-> date_str.wall, tzinfo |-> date_str.utcoffset]

\* the day before a calendar date (Gregorian, for the years used here)
DaysIn(y, mo) ==
    IF mo \in { 4, 6, 9, 11 } THEN 30
    ELSE IF mo # 2 THEN 31
    ELSE IF y % 4 = 0 /\ (y % 100 # 0 \/ y % 400 = 0) THEN 29 ELSE 28

PreviousDay(dt) ==
    IF dt.day > 1 THEN [dt EXCEPT !.day = dt.day - 1]
    ELSE IF dt.month > 1
         THEN [dt EXCEPT !.month = dt.month - 1, !.day = DaysIn(dt.year, dt.month - 1)]
         ELSE [dt EXCEPT !.year = dt.year - 1, !.month = 12, !.day = 31]

NextDay(dt) ==
    IF dt.day < DaysIn(dt.year, dt.month) THEN [dt EXCEPT !.day = dt.day + 1]
    ELSE IF dt.month < 12
         THEN [dt EXCEPT !.month = dt.month + 1, !.day = 1]
         ELSE [dt EXCEPT !.year = dt.year + 1, !.month = 1, !.day = 1]

\* variant of parse_naive_datetime: the offset is applied before it is
\* dropped (dt.astimezone(timezone.utc).replace(tzinfo=None))
parse_naive_datetime_utc(date_str) ==
    LET aware == strptime(date_str)
        w == aware.naive
        m == w.hour * 60 + w.minute - aware.tzinfo
        day == IF m < 0 THEN PreviousDay(w) ELSE IF m >= 1440 THEN NextDay(w) ELSE w
        mm == (m + 1440) % 1440
    IN  [day EXCEPT !.hour = mm \div 60, !.minute = mm % 60]

\* HealthDataHandler.parse_naive_datetime: dt.replace(tzinfo=None) keeps the
\* wall-clock fields and discards the offset
parse_naive_datetime(date_str) == strptime(date_str).naive

\* a fresh StepCountCallback
NewCallback == [start_times |-> <<>>, steps |-> <<>>]

\* StepCountCallback.__call__
Callback(cb, value, start_date) ==
    IF DatetimeLess(start_date, filter_start_date)
    THEN cb
    ELSE [start_times |-> Append(cb.start_times, start_date),
          steps |-> Append(cb.steps, value)]

\* variant of startElement: the type attribute is read but not compared
startElement_any_type(cb, tag, attributes) ==
    IF tag # "Record" THEN [raised |-> "", cb |-> cb]
    ELSE IF attributes.type = <<>> THEN [raised |-> "KeyError", cb |-> cb]
    ELSE IF ~attributes.value.isInt THEN [raised |-> "ValueError", cb |-> cb]
    ELSE IF ~attributes.startDate.wellformed THEN [raised |-> "ValueError", cb |-> cb]
    ELSE [raised |-> "",
          cb |-> Callback(cb, attributes.value.n,
                          parse_naive_datetime(attributes.startDate))]

\* HealthDataHandler.startElement: the exception raised ("" for none) and the
\* callback object afterwards
startElement(cb, tag, attributes) ==
    IF tag # "Record" THEN [raised |-> "", cb |-> cb]
    ELSE IF attributes.type = <<>> THEN [raised |-> "KeyError", cb |-> cb]
    ELSE IF attributes.type[1] # StepType THEN [raised |-> "", cb |-> cb]
    ELSE IF ~attributes.value.isInt THEN [raised |-> "ValueError", cb |-> cb]
    ELSE IF ~attributes.startDate.wellformed THEN [raised |-> "ValueError", cb |-> cb]
    ELSE [raised |-> "",
          cb |-> Callback(cb, attributes.value.n,
                          parse_naive_datetime(attributes.startDate))]

\* sum of steps[i] over the rows i whose Datum is key
RECURSIVE GroupSum(_, _, _)
GroupSum(datum, steps, key) ==
    IF datum = <<>> THEN 0
    ELSE (IF Head(datum) = key THEN Head(steps) ELSE 0)
         + GroupSum(Tail(datum), Tail(steps), key)

\* variant of SortedKeys: the keys in descending order
RECURSIVE SortedKeys_descending(_)
SortedKeys_descending(keys) ==
    IF keys = {} THEN <<>>
    ELSE LET greatest == CHOOSE k \in keys : \A o \in keys \ {k} : LexLess(o, k)
         IN  <<greatest>> \o SortedKeys_descending(keys \ {greatest})

\* the group keys in ascending order (groupby sorts its keys)
RECURSIVE SortedKeys(_)
SortedKeys(keys) ==
    IF keys = {} THEN <<>>
    ELSE LET least == CHOOSE k \in keys : \A o \in keys \ {k} : LexLess(k, o)
         IN  <<least>> \o SortedKeys(keys \ {least})

\* aggregate_daily_steps after parse_health_data returned df: the Datum
\* column, then groupby("Datum")["Aantal stappen"].sum().reset_index()
aggregate_daily_steps(cb) ==
    LET datum == [i \in 1..Len(cb.start_times) |-> strftime(cb.start_times[i])]
        order == SortedKeys({ datum[i] : i \in 1..Len(datum) })
    IN  [r \in 1..Len(order) |->
            [Datum |-> order[r], steps |-> GroupSum(datum, cb.steps, order[r])]]

\* os.path.basename: what follows the last "/"
RECURSIVE basename(_)
basename(path) ==
    IF path = <<>> THEN <<>>
    ELSE IF path[Len(path)] = "/" THEN <<>>
    ELSE basename(SubSeq(path, 1, Len(path) - 1)) \o <<path[Len(path)]>>

\* f"{sessionId}": the decimal digits of the id
RECURSIVE FormatInt(_)
FormatInt(n) ==
    IF n < 10 THEN <<Digit(n)>> ELSE FormatInt(n \div 10) \o <<Digit(n % 10)>>

(* ------------------------------- state --------------------------------- *)

VARIABLES
    sessionId,      \* argument of process
    pc,             \* where the process generator is suspended
    data,           \* process: data
    meta_data,      \* process: meta_data
    fileResult,     \* process: fileResult
    consent_result, \* process: consent_result
    commands,       \* the commands the generator has yielded, in order
    responses,      \* the payloads the host has sent in, in order
    error,          \* exception that ended the generator ("" for none)
    xpc,            \* where the extraction call is
    zip_path,       \* argument of the extraction call
    archive,        \* the zipfile.ZipFile object of the call
    opened,         \* members of the archive opened with archive.open
    events,         \* start-element events the parser has reported so far
    scan,           \* how parser.parse ended ("" while it has not)
    callback,       \* the StepCountCallback instance of the call
    raised,         \* exception the extraction call is raising ("" for none)
    daily_steps     \* value the extraction call is returning

wvars == << sessionId, pc, data, meta_data, fileResult, consent_result,
           commands, responses, error >>
xvars == << xpc, zip_path, archive, opened, events, scan, callback, raised, daily_steps >>
vars == << sessionId, pc, data, meta_data, fileResult, consent_result,
           commands, responses, error,
           xpc, zip_path, archive, opened, events, scan, callback, raised, daily_steps >>

NoArchive == [isZip |-> FALSE, namelist |-> {}, isOpen |-> FALSE]
NoData == [kind |-> "None", id |-> "", data_frame |-> <<>>, path |-> <<>>]
NoPayload == Payload("", <<>>, "")

(* -------------------------- rendered commands -------------------------- *)

Command(name, body, table_id, rows, filename, meta, key, json) ==
    [name |-> name, body |-> body, table_id |-> table_id, data_frame |-> rows,
     filename |-> filename, meta |-> meta, key |-> key, json_string |-> json]

\* render_donation_page(prompt_file())
RenderFile ==
    Command("CommandUIRender", "PropsUIPromptFileInput", "", <<>>, <<>>, <<>>, <<>>, "")

\* render_donation_page(retry_confirmation())
RenderRetry ==
    Command("CommandUIRender", "PropsUIPromptConfirm", "", <<>>, <<>>, <<>>, <<>>, "")

\* render_donation_page(prompt_consent(table, meta_data))
prompt_consent(table, meta) ==
    Command("CommandUIRender", "PropsUIPromptConsentForm", table.id,
            table.data_frame, <<>>, meta, <<>>, "")

\* render_donation_page(prompt_report_consent(filename, meta_data))
prompt_report_consent(filename, meta) ==
    Command("CommandUIRender", "PropsUIPromptConsentForm", "filename",
            <<>>, filename, meta, <<>>, "")

\* donate(key, json_string)
donate(key, json_string) ==
    Command("CommandSystemDonate", "", "", <<>>, <<>>, <<>>, key, json_string)

DeclinedValue == "{\"status\" : \"donation declined\"}"

\* extract_daily_steps_from_zip: the ExtractionResult wrapped around step_data
ExtractionResult(step_data) ==
    [kind |-> "ExtractionResult", id |-> "ihealth_step_counts",
     data_frame |-> step_data, path |-> <<>>]

(* ------------------------------- Init ---------------------------------- *)

Init ==
    /\ sessionId \in SessionIds
    /\ pc = "start"
    /\ data = NoData
    /\ meta_data = <<>>
    /\ fileResult = NoPayload
    /\ consent_result = NoPayload
    /\ commands = <<>>
    /\ responses = <<>>
    /\ error = ""
    /\ xpc = "idle"
    /\ zip_path = <<>>
    /\ archive = NoArchive
    /\ opened = {}
    /\ events = <<>>
    /\ scan = ""
    /\ callback = NewCallback
    /\ raised = ""
    /\ daily_steps = <<>>

(* -------------------------- the extraction call ------------------------ *)

\* variant of open_export_zip: when the expected member is missing another
\* member of the archive is opened in its place
open_export_zip_fallback(ar) ==
    /\ xpc = "open_export_zip"
    /\ IF ~ar.isZip
       THEN /\ raised' = "BadZipFile"
            /\ xpc' = "ended"
            /\ UNCHANGED << archive, opened >>
       ELSE IF ar.namelist = {}
       THEN /\ archive' = [isZip |-> TRUE, namelist |-> ar.namelist, isOpen |-> FALSE]
            /\ raised' = "FileInZipNotFoundError"
            /\ xpc' = "ended"
            /\ UNCHANGED opened
       ELSE IF ~ar.entryOk
       THEN /\ archive' = [isZip |-> TRUE, namelist |-> ar.namelist, isOpen |-> TRUE]
            /\ raised' = "BadZipFile"
            /\ xpc' = "finally"
            /\ UNCHANGED opened
       ELSE /\ archive' = [isZip |-> TRUE, namelist |-> ar.namelist, isOpen |-> TRUE]
            /\ opened' = opened \cup { IF ExportName \in ar.namelist THEN ExportName
                                       ELSE CHOOSE n \in ar.namelist : TRUE }
            /\ xpc' = "parse"
            /\ UNCHANGED raised
    /\ UNCHANGED << zip_path, events, scan, callback, daily_steps >>
    /\ UNCHANGED wvars

\* open_export_zip up to its yield: ZipFile(zip_path), the namelist test
\* with close-and-raise, archive.open(file_name)
open_export_zip(ar) ==
    /\ xpc = "open_export_zip"
    /\ IF ~ar.isZip
       THEN /\ raised' = "BadZipFile"
            /\ xpc' = "ended"
            /\ UNCHANGED << archive, opened >>
       ELSE IF ExportName \notin ar.namelist
       THEN /\ archive' = [isZip |-> TRUE, namelist |-> ar.namelist, isOpen |-> FALSE]
            /\ raised' = "FileInZipNotFoundError"
            /\ xpc' = "ended"
            /\ UNCHANGED opened
       ELSE IF ~ar.entryOk
       THEN \* archive.open raises inside the try
            /\ archive' = [isZip |-> TRUE, namelist |-> ar.namelist, isOpen |-> TRUE]
            /\ raised' = "BadZipFile"
            /\ xpc' = "finally"
            /\ UNCHANGED opened
       ELSE /\ archive' = [isZip |-> TRUE, namelist |-> ar.namelist, isOpen |-> TRUE]
            /\ opened' = opened \cup { ExportName }
            /\ xpc' = "parse"
            /\ UNCHANGED raised
    /\ UNCHANGED << zip_path, events, scan, callback, daily_steps >>
    /\ UNCHANGED wvars

\* parser.parse reports one start-element event to HealthDataHandler; an
\* exception of the handler leaves parse_health_data uncaught
ParserStartElement(e) ==
    /\ xpc = "parse"
    /\ Len(events) < MaxLen
    /\ events' = Append(events, e)
    /\ LET r == startElement(callback, e.tag, e.attributes)
       IN  IF r.raised # ""
           THEN /\ raised' = r.raised
                /\ xpc' = "finally"
                /\ UNCHANGED callback
           ELSE /\ callback' = r.cb
                /\ UNCHANGED << raised, xpc >>
    /\ UNCHANGED << zip_path, archive, opened, scan, daily_steps >>
    /\ UNCHANGED wvars

\* variant of parse_health_data: the SAXParseException is caught and dropped
parse_health_data_swallow(cb, outcome) ==
    IF cb.steps = <<>> THEN [raised |-> "EmptyHealthDataError", df |-> NewCallback]
    ELSE [raised |-> "", df |-> cb]

\* variant of parse_health_data: no df.empty test
parse_health_data_no_empty_test(cb, outcome) ==
    IF outcome = "SAXParseException" THEN [raised |-> "InvalidXMLError", df |-> NewCallback]
    ELSE [raised |-> "", df |-> cb]

\* parse_health_data after parser.parse: outcome is "SAXParseException" when the
\* parser raised it, "ok" when it returned; the exception raised and the
\* DataFrame returned
parse_health_data(cb, outcome) ==
    IF outcome = "SAXParseException" THEN [raised |-> "InvalidXMLError", df |-> NewCallback]
    ELSE IF cb.steps = <<>> THEN [raised |-> "EmptyHealthDataError", df |-> NewCallback]
    ELSE [raised |-> "", df |-> cb]

\* the scan ends: at the end of a well-formed document or at a syntax error
\* (an empty entry is a syntax error before any event); then
\* aggregate_daily_steps on the DataFrame
ParserEnd(outcome) ==
    /\ xpc = "parse"
    /\ scan' = outcome
    /\ LET r == parse_health_data(callback, outcome)
       IN  /\ raised' = r.raised
           /\ daily_steps' = IF r.raised = "" THEN aggregate_daily_steps(r.df) ELSE <<>>
    /\ xpc' = "finally"
    /\ UNCHANGED << zip_path, archive, opened, events, callback >>
    /\ UNCHANGED wvars

\* variant of open_export_zip_finally: archive.close() after the yield
\* without try/finally, so it is skipped when the body raises
open_export_zip_no_finally ==
    /\ xpc = "finally"
    /\ archive' = [archive EXCEPT !.isOpen = (raised # "")]
    /\ xpc' = "ended"
    /\ UNCHANGED << zip_path, opened, events, scan, callback, raised, daily_steps >>
    /\ UNCHANGED wvars

\* open_export_zip after its yield: the finally clause, on return and on
\* exception alike
open_export_zip_finally ==
    /\ xpc = "finally"
    /\ archive' = [archive EXCEPT !.isOpen = FALSE]
    /\ xpc' = "ended"
    /\ UNCHANGED << zip_path, opened, events, scan, callback, raised, daily_steps >>
    /\ UNCHANGED wvars

(* ------------------------- the process generator ----------------------- *)

Debug(message) == << "debug", message >>

RenderedFilePrompts == Cardinality({ i \in 1..Len(commands) : commands[i] = RenderFile })

ResetCall ==
    /\ xpc' = "idle"
    /\ zip_path' = <<>>
    /\ archive' = NoArchive
    /\ opened' = {}
    /\ events' = <<>>
    /\ scan' = ""
    /\ callback' = NewCallback
    /\ raised' = ""
    /\ daily_steps' = <<>>

\* process after the while loop, up to the yield of the consent prompt:
\* d and m are data and meta_data when the loop is left
AfterLoop(d, m) ==
    /\ data' = d
    /\ IF d.kind = "ExtractionResult"
       THEN /\ commands' = Append(commands, prompt_consent(d, m))
            /\ meta_data' = Append(m, Debug("prompt consent"))
            /\ pc' = "consent_prompt"
            /\ error' = ""
       ELSE IF d.kind = "None"
       THEN \* data[1] on None
            /\ commands' = commands
            /\ meta_data' = m
            /\ pc' = "raised"
            /\ error' = "TypeError"
       ELSE /\ commands' = Append(commands, prompt_report_consent(basename(d.path), m))
            /\ meta_data' = Append(m, Debug("prompt consent"))
            /\ pc' = "consent_prompt"
            /\ error' = ""

\* the first next() on the generator: the file prompt
ProcessStart ==
    /\ pc = "start"
    /\ commands' = Append(commands, RenderFile)
    /\ pc' = "file_prompt"
    /\ UNCHANGED << sessionId, data, meta_data, fileResult, consent_result, responses, error >>
    /\ UNCHANGED xvars

\* the host answers the file prompt
FileAnswer(p) ==
    /\ pc = "file_prompt"
    /\ responses' = Append(responses, p)
    /\ fileResult' = p
    /\ IF p.type = "PayloadString"
       THEN /\ meta_data' = Append(meta_data, Debug("extracting file"))
            /\ pc' = "extracting"
            /\ xpc' = "open_export_zip"
            /\ zip_path' = p.path
            /\ UNCHANGED << data, commands, error >>
            /\ UNCHANGED << archive, opened, events, scan, callback, raised, daily_steps >>
       ELSE /\ AfterLoop(data, Append(meta_data, Debug("skip to next step")))
            /\ UNCHANGED xvars
    /\ UNCHANGED << sessionId, consent_result >>

\* variant of ExtractionRaised: no retry confirmation, the failed file goes
\* straight to the report consent
ExtractionRaised_no_retry ==
    /\ pc = "extracting"
    /\ xpc = "ended"
    /\ raised # ""
    /\ AfterLoop([kind |-> "aborted", id |-> "", data_frame |-> <<>>,
                  path |-> fileResult.path], meta_data)
    /\ ResetCall
    /\ UNCHANGED << sessionId, fileResult, consent_result, responses >>

\* the except branch: the extraction call raised
ExtractionRaised ==
    /\ pc = "extracting"
    /\ xpc = "ended"
    /\ raised # ""
    /\ meta_data' = Append(meta_data, Debug("prompt confirmation to retry file selection"))
    /\ commands' = Append(commands, RenderRetry)
    /\ pc' = "retry_prompt"
    /\ ResetCall
    /\ UNCHANGED << sessionId, data, fileResult, consent_result, responses, error >>

\* the else branch: the extraction call returned
ExtractionReturned ==
    /\ pc = "extracting"
    /\ xpc = "ended"
    /\ raised = ""
    /\ AfterLoop(ExtractionResult(daily_steps),
                 Append(meta_data, Debug("extraction successful, go to consent form")))
    /\ ResetCall
    /\ UNCHANGED << sessionId, fileResult, consent_result, responses >>

\* the host answers the retry confirmation
RetryAnswer(p) ==
    /\ pc = "retry_prompt"
    /\ responses' = Append(responses, p)
    /\ IF p.type = "PayloadTrue"
       THEN /\ RenderedFilePrompts < MaxAttempts
            /\ meta_data' = Append(meta_data, Debug("retry prompt file"))
            /\ commands' = Append(commands, RenderFile)
            /\ pc' = "file_prompt"
            /\ UNCHANGED << data, error >>
       ELSE AfterLoop([kind |-> "aborted", id |-> "", data_frame |-> <<>>,
                       path |-> fileResult.path], meta_data)
    /\ UNCHANGED << sessionId, fileResult, consent_result >>
    /\ UNCHANGED xvars

\* the host answers the consent prompt
ConsentAnswer(p) ==
    /\ pc = "consent_prompt"
    /\ responses' = Append(responses, p)
    /\ consent_result' = p
    /\ IF p.type = "PayloadJSON"
       THEN /\ meta_data' = Append(meta_data, Debug("donate consent data"))
            /\ commands' = Append(commands, donate(FormatInt(sessionId), p.json))
            /\ pc' = "donate_json"
       ELSE IF p.type = "PayloadFalse"
       THEN /\ commands' = Append(commands, donate(FormatInt(sessionId), DeclinedValue))
            /\ pc' = "donate_declined"
            /\ UNCHANGED meta_data
       ELSE /\ pc' = "done"
            /\ UNCHANGED << meta_data, commands >>
    /\ UNCHANGED << sessionId, data, fileResult, error >>
    /\ UNCHANGED xvars

\* variant of DonateResumed: the second donate is not guarded by the type of
\* the consent answer
DonateResumed_unguarded(p) ==
    /\ pc \in { "donate_json", "donate_declined" }
    /\ responses' = Append(responses, p)
    /\ IF pc = "donate_json"
       THEN /\ commands' = Append(commands, donate(FormatInt(sessionId), DeclinedValue))
            /\ pc' = "donate_declined"
       ELSE /\ pc' = "done"
            /\ UNCHANGED commands
    /\ UNCHANGED << sessionId, data, meta_data, fileResult, consent_result, error >>
    /\ UNCHANGED xvars

\* the host resumes the generator after a donate command
DonateResumed(p) ==
    /\ pc \in { "donate_json", "donate_declined" }
    /\ responses' = Append(responses, p)
    /\ IF pc = "donate_json" /\ consent_result.type = "PayloadFalse"
       THEN /\ commands' = Append(commands, donate(FormatInt(sessionId), DeclinedValue))
            /\ pc' = "donate_declined"
       ELSE /\ pc' = "done"
            /\ UNCHANGED commands
    /\ UNCHANGED << sessionId, data, meta_data, fileResult, consent_result, error >>
    /\ UNCHANGED xvars

(* ---------------------------- specification ---------------------------- *)

Next ==
    \/ ProcessStart
    \/ \E p \in Payloads : FileAnswer(p)
    \/ \E ar \in Archives : open_export_zip(ar)
    \/ \E e \in Elements : ParserStartElement(e)
    \/ \E outcome \in { "ok", "SAXParseException" } : ParserEnd(outcome)
    \/ open_export_zip_finally
    \/ ExtractionRaised
    \/ ExtractionReturned
    \/ \E p \in Payloads : RetryAnswer(p)
    \/ \E p \in Payloads : ConsentAnswer(p)
    \/ \E p \in { Payload("PayloadVoid", <<>>, "") } : DonateResumed(p)

Spec == Init /\ [][Next]_vars

(* ------------------------ vocabulary of the claims --------------------- *)

\* the extraction call has ended by returning a result
Returned == xpc = "ended" /\ raised = ""

\* a Record element of the step-count type
IsStepRecord(e) ==
    /\ e.tag = "Record"
    /\ e.attributes.type = << StepType >>

\* a step-count record whose value and startDate are readable and whose
\* written wall-clock time is in 2017 or later, i.e. not before
\* 2017-01-01T00:00:00
Qualifies(e) ==
    /\ IsStepRecord(e)
    /\ e.attributes.value.isInt
    /\ e.attributes.startDate.wellformed
    /\ e.attributes.startDate.wall.year >= 2017

WrittenWall(e) == e.attributes.startDate.wall
WrittenValue(e) == e.attributes.value.n

\* the calendar date a "YYYY-MM-DD" string denotes
DigitValue(c) == c - 48
ParseDatum(str) ==
    [year |-> DigitValue(str[1]) * 1000 + DigitValue(str[2]) * 100
              + DigitValue(str[3]) * 10 + DigitValue(str[4]),
     month |-> DigitValue(str[6]) * 10 + DigitValue(str[7]),
     day |-> DigitValue(str[9]) * 10 + DigitValue(str[10])]

OnDate(e, str) ==
    LET w == WrittenWall(e)
    IN  /\ Len(str) = 10
        /\ str[5] = 45 /\ str[8] = 45
        /\ ParseDatum(str) = [year |-> w.year, month |-> w.month, day |-> w.day]

\* sum of the values of the qualifying records of evs that fall on a date
\* (on any date when str is the empty string)
RECURSIVE QualifyingSum(_, _)
QualifyingSum(evs, str) ==
    IF evs = <<>> THEN 0
    ELSE (IF Qualifies(Head(evs)) /\ (str = <<>> \/ OnDate(Head(evs), str))
          THEN WrittenValue(Head(evs)) ELSE 0)
         + QualifyingSum(Tail(evs), str)

RECURSIVE RowSum(_)
RowSum(rows) == IF rows = <<>> THEN 0 ELSE Head(rows).steps + RowSum(Tail(rows))

QualifyingEvents == SelectSeq(events, Qualifies)

(* ------------------------------- claims -------------------------------- *)

\* C1: whenever the extraction returns a result, its rows are strictly
\* ascending by date string (so no date occurs twice), whatever the order of
\* the Record elements in the document.
C1_RowsStrictlyAscending ==
    Returned =>
        \A i, j \in 1..Len(daily_steps) :
            i < j => LexLess(daily_steps[i].Datum, daily_steps[j].Datum)

\* a result of two rows from a document whose later day comes first
C1_Witness ==
    /\ Returned
    /\ Len(daily_steps) = 2
    /\ Len(QualifyingEvents) >= 2
    /\ WrittenWall(QualifyingEvents[1]).year = 2024
    /\ WrittenWall(QualifyingEvents[2]).year = 2017

\* C2: whenever the extraction returns a result, each row's steps is the sum
\* of value over exactly the step-count records written at or after
\* 2017-01-01 that fall on the row's date, every such record has a row, the
\* rows' total is the total of those records, and records of another type or
\* tag add nothing and make no row.
C2_RowsAreDailySums ==
    Returned =>
        /\ \A r \in 1..Len(daily_steps) :
              /\ daily_steps[r].steps = QualifyingSum(events, daily_steps[r].Datum)
              /\ \E i \in 1..Len(events) :
                    Qualifies(events[i]) /\ OnDate(events[i], daily_steps[r].Datum)
        /\ \A i \in 1..Len(events) :
              Qualifies(events[i]) =>
                  \E r \in 1..Len(daily_steps) : OnDate(events[i], daily_steps[r].Datum)
        /\ RowSum(daily_steps) = QualifyingSum(events, <<>>)

\* a result with a day that sums two records, from a document that also
\* holds a heart-rate record
C2_Witness ==
    /\ Returned
    /\ \E r \in 1..Len(daily_steps) : daily_steps[r].steps = 350
    /\ \E i \in 1..Len(events) :
          events[i].tag = "Record" /\ events[i].attributes.type = << HeartType >>

\* C3: a step-count record is kept exactly when the wall-clock time written
\* in its startDate, offset dropped and not applied, is not before
\* 2017-01-01T00:00:00 (2017-01-01 00:00:00 kept, 2016-12-31 23:59:59 not),
\* and that written date is the day it is summed into, for every offset.
C3_WrittenWallClockDecides ==
    /\ xpc \in { "parse", "finally", "ended" } =>
          /\ Len(callback.start_times) = Len(QualifyingEvents)
          /\ \A i \in 1..Len(QualifyingEvents) :
                /\ callback.start_times[i] = WrittenWall(QualifyingEvents[i])
                /\ callback.steps[i] = WrittenValue(QualifyingEvents[i])
    /\ Returned =>
          /\ \A i \in 1..Len(QualifyingEvents) :
                \E r \in 1..Len(daily_steps) : OnDate(QualifyingEvents[i], daily_steps[r].Datum)
          /\ \A r \in 1..Len(daily_steps) :
                \E i \in 1..Len(QualifyingEvents) : OnDate(QualifyingEvents[i], daily_steps[r].Datum)

\* a document with 2016-12-31 23:59:59 +0000 and 2017-01-01 00:00:00 +0100:
\* only the second is kept, and it is summed into 2017-01-01
C3_Witness ==
    /\ Returned
    /\ \E i \in 1..Len(events) :
          /\ IsStepRecord(events[i])
          /\ events[i].attributes.startDate = DateLiteral(DT(2016, 12, 31, 23, 59, 59), 0)
    /\ \E i \in 1..Len(events) :
          /\ IsStepRecord(events[i])
          /\ events[i].attributes.startDate = DateLiteral(DT(2017, 1, 1, 0, 0, 0), 60)
    /\ Len(daily_steps) = 1
    /\ daily_steps[1].Datum = << 50, 48, 49, 55, 45, 48, 49, 45, 48, 49 >>
    /\ daily_steps[1].steps = 250

\* C4: when the XML scan fails (syntax error or empty entry), after any
\* number of step records already delivered to the callback, the extraction
\* raises InvalidXMLError and returns nothing: no result, no partial
\* aggregate, no EmptyHealthDataError. A scan cut short by an exception of
\* the handler also returns nothing and is not an EmptyHealthDataError.
C4_ScanFailureIsInvalidXML ==
    /\ (scan = "SAXParseException" /\ xpc \in { "finally", "ended" }) =>
          /\ raised = "InvalidXMLError"
          /\ daily_steps = <<>>
    /\ (scan # "ok" /\ opened # {} /\ xpc \in { "finally", "ended" }) =>
          /\ raised \notin { "", "EmptyHealthDataError" }
          /\ daily_steps = <<>>

\* the scan failed after two qualifying records had reached the callback
C4_Witness ==
    /\ xpc = "ended"
    /\ scan = "SAXParseException"
    /\ Len(QualifyingEvents) >= 2
    /\ Len(callback.steps) >= 2

\* C5: when the scan of a well-formed document leaves no record after the
\* type and cutoff filters, the extraction raises EmptyHealthDataError; so a
\* returned result has at least one row.
C5_NoRecordsIsEmptyHealthData ==
    /\ (scan = "ok" /\ xpc \in { "finally", "ended" } /\ QualifyingEvents = <<>>) =>
          /\ raised = "EmptyHealthDataError"
          /\ daily_steps = <<>>
    /\ Returned => Len(daily_steps) >= 1

\* a well-formed document whose records are all step records dated 2016
C5_Witness ==
    /\ xpc = "ended"
    /\ scan = "ok"
    /\ raised = "EmptyHealthDataError"
    /\ Len(events) >= 2
    /\ \A i \in 1..Len(events) :
          IsStepRecord(events[i]) /\ WrittenWall(events[i]).year = 2016

\* C6: when the archive has no member apple_health_export/export.xml the
\* extraction raises FileInZipNotFoundError at once: nothing is parsed or
\* aggregated, no member is opened, nothing is returned.
C6_MissingMemberFailsAtOnce ==
    (archive.isZip /\ ExportName \notin archive.namelist) =>
        /\ xpc = "ended"
        /\ raised = "FileInZipNotFoundError"
        /\ opened = {}
        /\ events = <<>>
        /\ scan = ""
        /\ callback = NewCallback
        /\ daily_steps = <<>>

\* an archive that has other members but not the expected one
C6_Witness ==
    /\ xpc = "ended"
    /\ archive.isZip
    /\ archive.namelist = MemberNames \ { ExportName }
    /\ raised = "FileInZipNotFoundError"

\* C7: when an extraction call ends, on any path, its archive handle is
\* closed.
C7_ArchiveClosedAtCallEnd ==
    xpc \in { "ended", "idle" } => ~archive.isOpen

\* a call that opened the entry and ended with an exception of the handler
C7_Witness ==
    /\ xpc = "ended"
    /\ archive.isZip
    /\ opened = { ExportName }
    /\ raised = "KeyError"
    /\ ~archive.isOpen

\* the consent prompts among the commands rendered so far
ConsentPrompts ==
    { i \in 1..Len(commands) : commands[i].body = "PropsUIPromptConsentForm" }

DonateCommands ==
    { i \in 1..Len(commands) : commands[i].name = "CommandSystemDonate" }

InFileSelection == pc \in { "start", "file_prompt", "extracting", "retry_prompt" }

\* the payload the host sends in a step that resumes the generator
Answered == responses' # responses
Answer == responses'[Len(responses')]

\* name is what follows the last "/" of path
IsBaseName(name, path) ==
    \E k \in 1..(Len(path) + 1) :
        /\ name = SubSeq(path, k, Len(path))
        /\ \A i \in 1..Len(name) : name[i] # "/"
        /\ k = 1 \/ path[k - 1] = "/"

\* the number a sequence of decimal digit characters denotes
RECURSIVE ParseInt(_)
ParseInt(str) ==
    IF str = <<>> THEN 0
    ELSE 10 * ParseInt(SubSeq(str, 1, Len(str) - 1)) + DigitValue(str[Len(str)])

\* C8: however the workflow leaves the file-selection phase (extraction
\* succeeded, retry declined, file prompt answered by something that is not
\* a file path), it has then rendered exactly one consent prompt: the step
\* table form after a successful extraction, the filename report otherwise.
C8_OneConsentPromptAfterSelection ==
    ~InFileSelection =>
        /\ Cardinality(ConsentPrompts) = 1
        /\ \A i \in ConsentPrompts :
              commands[i].table_id =
                  (IF data.kind = "ExtractionResult" THEN "ihealth_step_counts" ELSE "filename")

\* C9: a failed extraction, whatever it raised, is followed by the retry
\* confirmation and keeps nothing as data; PayloadTrue renders the file prompt
\* again, any other answer renders the report consent for the base name of
\* the failed file; an extraction starts only on a file path the host
\* supplies, once, and an ended one is not started again.
C9_RetryOrReportAfterFailure ==
    [][ /\ (pc = "extracting" /\ xpc = "ended" /\ raised # "") =>
              /\ commands' = Append(commands, RenderRetry)
              /\ pc' = "retry_prompt"
              /\ data' = NoData
              /\ xpc' = "idle"
        /\ (pc = "retry_prompt" /\ Answered) =>
              /\ xpc' = "idle"
              /\ IF Answer.type = "PayloadTrue"
                 THEN /\ commands' = Append(commands, RenderFile)
                      /\ pc' = "file_prompt"
                      /\ data' = NoData
                 ELSE /\ Len(commands') = Len(commands) + 1
                      /\ SubSeq(commands', 1, Len(commands)) = commands
                      /\ commands'[Len(commands')].body = "PropsUIPromptConsentForm"
                      /\ commands'[Len(commands')].table_id = "filename"
                      /\ commands'[Len(commands')].data_frame = <<>>
                      /\ IsBaseName(commands'[Len(commands')].filename, fileResult.path)
                      /\ pc' = "consent_prompt"
        /\ (xpc = "idle" /\ xpc' # "idle") =>
              /\ pc = "file_prompt"
              /\ Answered
              /\ Answer.type = "PayloadString"
        /\ (pc = "file_prompt" /\ Answered /\ Answer.type = "PayloadString") =>
              /\ xpc = "idle"
              /\ xpc' = "open_export_zip"
              /\ zip_path' = Answer.path
        /\ xpc = "ended" => xpc' = "idle"
      ]_vars

\* two files failed: the retry was accepted after the first and declined
\* after the second, whose base name is in the report consent
C9_Witness ==
    /\ pc = "consent_prompt"
    /\ data.kind = "aborted"
    /\ data.path = << "d", "/", "b" >>
    /\ RenderedFilePrompts = 2
    /\ commands[Len(commands)].filename = << "b" >>

\* C10: a run issues at most one donate command, and only as the reply to
\* the consent answer, right after the consent prompt: PayloadJSON donates
\* the answer's value under the session id, PayloadFalse donates the fixed
\* 'donation declined' status, any other answer ends the run without one.
C10_DonateOnlyOnConsentAnswer ==
    /\ [](/\ Cardinality(DonateCommands) <= 1
          /\ \A i \in DonateCommands :
                i > 1 /\ commands[i - 1].body = "PropsUIPromptConsentForm")
    /\ [][ /\ (pc = "consent_prompt" /\ Answered) =>
                 IF Answer.type = "PayloadJSON"
                 THEN /\ Len(commands') = Len(commands) + 1
                      /\ commands'[Len(commands')].name = "CommandSystemDonate"
                      /\ ParseInt(commands'[Len(commands')].key) = sessionId
                      /\ commands'[Len(commands')].json_string = Answer.json
                 ELSE IF Answer.type = "PayloadFalse"
                 THEN /\ Len(commands') = Len(commands) + 1
                      /\ commands'[Len(commands')].name = "CommandSystemDonate"
                      /\ ParseInt(commands'[Len(commands')].key) = sessionId
                      /\ commands'[Len(commands')].json_string = DeclinedValue
                 ELSE /\ commands' = commands
                      /\ pc' = "done"
           /\ pc # "consent_prompt" => DonateCommands' = DonateCommands
         ]_vars

\* a finished run that donated the consent answer "[{}]" under session 42
C10_Witness ==
    /\ pc = "done"
    /\ sessionId = 42
    /\ Cardinality(DonateCommands) = 1
    /\ commands[Len(commands)].key = << 52, 50 >>
    /\ commands[Len(commands)].json_string = "[{}]"
    /\ consent_result.type = "PayloadJSON"

====
